---------------------------- MODULE Spec2Model ----------------------------
(***************************************************************************)
(* The in-memory todo store of xStreamTool_go (package store, MemoryStore) *)
(* and the callers that use it concurrently (package api, Handler).        *)
(*                                                                         *)
(* A *models.Todo is an address into heap; the map s.todos sends a key to  *)
(* such an address.  Every store method returns addresses, as the Go code  *)
(* returns pointers.  Times are integers, 0 being the zero time.Time.      *)
(***************************************************************************)
EXTENDS Integers, Sequences, FiniteSets, TLC

VARIABLES
    todos,      \* MemoryStore.todos : key -> address of a Todo
    heap,       \* the Todo objects ever allocated, by address
    nextID,     \* MemoryStore.nextID
    mu,         \* MemoryStore.mu : [w : writer holding rw.w or 0, readers : set]
    now,        \* the value time.Now() returns
    pc,         \* position of every caller in the store method it runs
    op,         \* the store method a caller runs, with its arguments
    loc,        \* CreateTodo's local variable todo (an address, 0 before)
    res,        \* what the method returned to the caller: [err, val, list, stats]
    calls,      \* the number of calls made so far
    created,    \* history: ids returned by CreateTodo, in order of return
    deleted,    \* history: ids DeleteTodo removed
    h           \* the HTTP handler every caller runs, with its local variables

vars == <<todos, heap, nextID, mu, now, pc, op, loc, res, calls, created, deleted, h>>

-----------------------------------------------------------------------------
(* Bounds *)

NumCallers == 2
MaxCalls == 3
MaxCreates == 2
MaxTicks == 1

Callers == 1..NumCallers

-----------------------------------------------------------------------------
(* time.Time *)

Day == 1

IsZero(t) == t = 0

After(t, u) == t > u

Before(t, u) == t < u

\* the process starts late enough for every seeded time to be a non-zero time
StartTime == 3 * Day + 1

-----------------------------------------------------------------------------
(* models.TodoRequest and models.Todo *)

ErrNil == "nil"

ErrTodoNotFound == "ErrTodoNotFound"

\* A Go string that strings.Contains reads (Title, Description, the query) is
\* a sequence of characters; Category, only compared for equality, is a string.
NoReq == [Title |-> <<>>, Description |-> <<>>, Completed |-> FALSE,
          Priority |-> 0, Category |-> "", DueDate |-> 0]

\* a request that supplies the title only, every other field its zero value
ReqMinimal == [NoReq EXCEPT !.Title = <<"a">>]

\* a request that supplies every field
ReqFull == [Title |-> <<"b">>, Description |-> <<"a", "B">>, Completed |-> TRUE,
            Priority |-> 5, Category |-> "c", DueDate |-> 2 * Day]

Requests == {ReqMinimal, ReqFull}

\* a FromRequest that stamps created_at as well as updated_at
FromRequestStampsCreatedAt(t, req, tnow) ==
    [t EXCEPT !.Title = req.Title,
              !.Description = req.Description,
              !.Completed = req.Completed,
              !.Priority = req.Priority,
              !.Category = req.Category,
              !.DueDate = req.DueDate,
              !.CreatedAt = tnow,
              !.UpdatedAt = tnow]

\* a FromRequest that keeps the old value of a field the request leaves empty
FromRequestMerge(t, req, tnow) ==
    [t EXCEPT !.Title = IF Len(req.Title) = 0 THEN @ ELSE req.Title,
              !.Description = IF Len(req.Description) = 0 THEN @ ELSE req.Description,
              !.Completed = req.Completed,
              !.Priority = IF req.Priority = 0 THEN @ ELSE req.Priority,
              !.Category = IF req.Category = "" THEN @ ELSE req.Category,
              !.DueDate = IF IsZero(req.DueDate) THEN @ ELSE req.DueDate,
              !.UpdatedAt = tnow]

FromRequest(t, req, tnow) ==
    [t EXCEPT !.Title = req.Title,
              !.Description = req.Description,
              !.Completed = req.Completed,
              !.Priority = req.Priority,
              !.Category = req.Category,
              !.DueDate = req.DueDate,
              !.UpdatedAt = tnow]

-----------------------------------------------------------------------------
(* NewMemoryStore and Seed *)

Seed(s, tnow) ==
    LET t1 == [ID |-> 1, Title |-> <<"g", "o">>, Description |-> <<"a", "b">>,
               Completed |-> FALSE, Priority |-> 3, Category |-> "study",
               DueDate |-> tnow + 7 * Day,
               CreatedAt |-> tnow - 2 * Day, UpdatedAt |-> tnow - 2 * Day]
        t2 == [ID |-> 2, Title |-> <<"h">>, Description |-> <<"g", "o">>,
               Completed |-> TRUE, Priority |-> 4, Category |-> "project",
               DueDate |-> tnow - 1 * Day,
               CreatedAt |-> tnow - 3 * Day, UpdatedAt |-> tnow - 1 * Day]
        t3 == [ID |-> 3, Title |-> <<"d">>, Description |-> <<>>,
               Completed |-> FALSE, Priority |-> 2, Category |-> "ops",
               DueDate |-> tnow + 3 * Day,
               CreatedAt |-> tnow - 1 * Day, UpdatedAt |-> tnow - 1 * Day]
        a == Len(s.heap)
    IN  [heap   |-> s.heap \o <<t1, t2, t3>>,
         todos  |-> [k \in DOMAIN s.todos \cup {1, 2, 3} |->
                        IF k \in {1, 2, 3} THEN a + k ELSE s.todos[k]],
         nextID |-> 4]

\* a NewMemoryStore that leaves out store.Seed()
NewMemoryStoreUnseeded(tnow) == [heap |-> <<>>, todos |-> <<>>, nextID |-> 1]

\* a NewMemoryStore whose Seed leaves nextID at its first value
NewMemoryStoreCounterAtOne(tnow) ==
    [Seed([heap |-> <<>>, todos |-> <<>>, nextID |-> 1], tnow) EXCEPT !.nextID = 1]

NewMemoryStore(tnow) == Seed([heap |-> <<>>, todos |-> <<>>, nextID |-> 1], tnow)

\* the number of Todo objects construction allocates
SeedCount == Len(NewMemoryStore(StartTime).heap)

\* the ids a caller may name: the seeded ones and every id a Create can assign
IdArgs == 1..(SeedCount + MaxCreates)

-----------------------------------------------------------------------------
(* The calls *)

ReadOps == {"GetAllTodos", "GetTodoByID", "SearchTodos", "GetStats"}

WriteOps == {"CreateTodo", "UpdateTodo", "DeleteTodo"}

\* SearchTodos' arguments; completed is a *bool: "nil", "true" or "false"
NoFilter == [query |-> <<>>, category |-> "", completed |-> "nil"]

Filters == {NoFilter, [query |-> <<"a">>, category |-> "c", completed |-> "true"]}

Op(name, id, req, filter) == [name |-> name, id |-> id, req |-> req, filter |-> filter]

NoOp == Op("none", 0, NoReq, NoFilter)

\* the statistics map before anything is counted
NoStats ==
    [total |-> 0, completed |-> 0, pending |-> 0, overdue |-> 0,
     by_priority |-> [pr \in {} |-> 0], by_category |-> [c \in {} |-> 0]]

\* nothing returned yet: the nil error, the nil *Todo, slice and map
NoRes == [err |-> ErrNil, val |-> 0, list |-> <<>>, stats |-> NoStats]

Calls ==
    {Op("GetAllTodos", 0, NoReq, NoFilter), Op("GetStats", 0, NoReq, NoFilter)}
    \cup {Op("GetTodoByID", i, NoReq, NoFilter) : i \in IdArgs}
    \cup {Op("CreateTodo", 0, r, NoFilter) : r \in Requests}
    \cup {Op("UpdateTodo", i, r, NoFilter) : i \in IdArgs, r \in Requests}
    \cup {Op("DeleteTodo", i, NoReq, NoFilter) : i \in IdArgs}
    \cup {Op("SearchTodos", 0, NoReq, f) : f \in Filters}

\* the fields of models.Todo, in the order ToResponse reads them
TodoFields ==
    <<"ID", "Title", "Description", "Completed", "Priority", "Category", "DueDate",
      "CreatedAt", "UpdatedAt">>

\* the zero models.TodoResponse
NoResponse ==
    [ID |-> 0, Title |-> <<>>, Description |-> <<>>, Completed |-> FALSE,
     Priority |-> 0, Category |-> "", DueDate |-> 0, CreatedAt |-> 0, UpdatedAt |-> 0,
     Status |-> "", IsOverdue |-> FALSE]

\* a caller that runs no handler. A running handler has its name and its
\* arguments id and req, the stage it is at, the *Todo the store returned, the
\* number n of fields read through it so far, the response out and its
\* status code; seen is history: the values the Todo has had since the
\* handler got the pointer.
NoHandler ==
    [name |-> "none", id |-> 0, req |-> NoReq, stage |-> "idle", todo |-> 0, n |-> 0,
     out |-> NoResponse, code |-> 0, seen |-> {}]

Init ==
    /\ now = StartTime
    /\ LET s == NewMemoryStore(StartTime)
       IN  /\ todos = s.todos
           /\ heap = s.heap
           /\ nextID = s.nextID
    /\ mu = [w |-> 0, readers |-> {}]
    /\ pc = [p \in Callers |-> "idle"]
    /\ op = [p \in Callers |-> NoOp]
    /\ loc = [p \in Callers |-> 0]
    /\ res = [p \in Callers |-> NoRes]
    /\ calls = 0
    /\ created = <<>>
    /\ deleted = {}
    /\ h = [p \in Callers |-> NoHandler]

\* time passes
Tick ==
    /\ now < StartTime + MaxTicks
    /\ now' = now + 1
    /\ UNCHANGED <<todos, heap, nextID, mu, pc, op, loc, res, calls, created, deleted, h>>

\* Creates already begun that have not allocated their Todo yet
PendingCreates ==
    Cardinality({q \in Callers : op[q].name = "CreateTodo" /\ pc[q] \in {"lock", "wait", "cs"}})

\* a caller calls a store method
Call(p) ==
    /\ pc[p] = "idle"
    /\ calls < MaxCalls
    /\ calls' = calls + 1
    /\ \E c \in Calls :
        /\ c.name = "CreateTodo" => Len(heap) + PendingCreates < SeedCount + MaxCreates
        /\ op' = [op EXCEPT ![p] = c]
    /\ pc' = [pc EXCEPT ![p] = "lock"]
    /\ UNCHANGED <<todos, heap, nextID, mu, now, loc, res, created, deleted, h>>

-----------------------------------------------------------------------------
(* sync.RWMutex: Lock takes the writers' mutex rw.w, which from then on keeps  *)
(* new readers out, and then waits for the readers inside to leave.           *)

\* RLock that does not look at the writers
RLockFreeIgnoresWriter == TRUE

\* RLock blocks while a writer holds or awaits the lock
RLockFree == mu.w = 0

\* Lock that does not exclude another writer
LockFreeIgnoresWriter == TRUE

\* rw.w, the writers' mutex, is free
LockFree == mu.w = 0

ReadersGone == mu.readers = {}

\* s.mu.RLock()
RLock(p) ==
    /\ pc[p] = "lock"
    /\ op[p].name \in ReadOps
    /\ RLockFree
    /\ mu' = [mu EXCEPT !.readers = @ \cup {p}]
    /\ pc' = [pc EXCEPT ![p] = "cs"]
    /\ UNCHANGED <<todos, heap, nextID, now, op, loc, res, calls, created, deleted, h>>

\* s.mu.Lock(), first half: rw.w.Lock() and the announcement to the readers
LockBegin(p) ==
    /\ pc[p] = "lock"
    /\ op[p].name \in WriteOps
    /\ LockFree
    /\ mu' = [mu EXCEPT !.w = p]
    /\ pc' = [pc EXCEPT ![p] = "wait"]
    /\ UNCHANGED <<todos, heap, nextID, now, op, loc, res, calls, created, deleted, h>>

\* s.mu.Lock(), second half: the readers inside have left
LockEnter(p) ==
    /\ pc[p] = "wait"
    /\ ReadersGone
    /\ pc' = [pc EXCEPT ![p] = "cs"]
    /\ UNCHANGED <<todos, heap, nextID, mu, now, op, loc, res, calls, created, deleted, h>>

-----------------------------------------------------------------------------
(* The store methods, between taking the lock and the deferred unlock *)

\* the Todo objects the map holds
Stored == {todos[k] : k \in DOMAIN todos}

NotFound == [NoRes EXCEPT !.err = ErrTodoNotFound]

\* a *Todo (its address) returned with the nil error
Ok(v) == [NoRes EXCEPT !.val = v]

\* a []*Todo returned with the nil error
OkList(s) == [NoRes EXCEPT !.list = s]

\* the statistics map returned with the nil error
OkStats(st) == [NoRes EXCEPT !.stats = st]

\* sort.Slice(x, less) on the elements S in the map's arbitrary iteration order:
\* any order in which no element is less than one placed before it
RECURSIVE SortSlice(_, _)
SortSlice(S, less) ==
    IF S = {} THEN {<<>>}
    ELSE UNION {{<<x>> \o t : t \in SortSlice(S \ {x}, less)} :
                    x \in {y \in S : \A z \in S : <<z, y>> \notin less}}

\* a less function that puts the oldest first
GetAllLessOldestFirst(a, b) == Before(heap[a].CreatedAt, heap[b].CreatedAt)

\* the less function of GetAllTodos' sort
GetAllLess(a, b) == After(heap[a].CreatedAt, heap[b].CreatedAt)

GetAllTodos(p) ==
    /\ pc[p] = "cs"
    /\ op[p].name = "GetAllTodos"
    /\ pc' = [pc EXCEPT ![p] = "unlock"]
    /\ \E s \in SortSlice(Stored, {ab \in Stored \X Stored : GetAllLess(ab[1], ab[2])}) :
            res' = [res EXCEPT ![p] = OkList(s)]
    /\ UNCHANGED <<todos, heap, nextID, mu, now, op, loc, calls, created, deleted, h>>

\* what GetTodoByID returns for id
Lookup(id) == IF id \in DOMAIN todos THEN Ok(todos[id]) ELSE NotFound

\* a GetTodoByID that stamps the Todo it finds
GetTodoByIDStamps(p) ==
    /\ pc[p] = "cs"
    /\ op[p].name = "GetTodoByID"
    /\ pc' = [pc EXCEPT ![p] = "unlock"]
    /\ res' = [res EXCEPT ![p] = Lookup(op[p].id)]
    /\ heap' = IF op[p].id \in DOMAIN todos
               THEN [heap EXCEPT ![todos[op[p].id]].UpdatedAt = now]
               ELSE heap
    /\ UNCHANGED <<todos, nextID, mu, now, op, loc, calls, created, deleted, h>>

GetTodoByID(p) ==
    /\ pc[p] = "cs"
    /\ op[p].name = "GetTodoByID"
    /\ pc' = [pc EXCEPT ![p] = "unlock"]
    /\ res' = [res EXCEPT ![p] = Lookup(op[p].id)]
    /\ UNCHANGED <<todos, heap, nextID, mu, now, op, loc, calls, created, deleted, h>>

\* a Todo built without its UpdatedAt
NewTodoNoUpdatedAt(id, req, tnow) ==
    [ID |-> id, Title |-> req.Title, Description |-> req.Description,
     Completed |-> req.Completed, Priority |-> req.Priority,
     Category |-> req.Category, DueDate |-> req.DueDate,
     CreatedAt |-> tnow, UpdatedAt |-> 0]

\* the Todo that CreateTodo builds
NewTodo(id, req, tnow) ==
    [ID |-> id, Title |-> req.Title, Description |-> req.Description,
     Completed |-> req.Completed, Priority |-> req.Priority,
     Category |-> req.Category, DueDate |-> req.DueDate,
     CreatedAt |-> tnow, UpdatedAt |-> tnow]

\* CreateTodo, lines 93-106: now := time.Now(); todo := &models.Todo{...}
CreateTodoAlloc(p) ==
    /\ pc[p] = "cs"
    /\ op[p].name = "CreateTodo"
    /\ heap' = Append(heap, NewTodo(nextID, op[p].req, now))
    /\ loc' = [loc EXCEPT ![p] = Len(heap) + 1]
    /\ pc' = [pc EXCEPT ![p] = "cs2"]
    /\ UNCHANGED <<todos, nextID, mu, now, op, res, calls, created, deleted, h>>

\* a CreateTodo that leaves out s.nextID++
NextIDNotIncremented(n) == n

\* the counter after a Create: s.nextID++
NextIDAfterCreate(n) == n + 1

\* CreateTodo, lines 109-112: s.todos[todo.ID] = todo; s.nextID++; return todo
CreateTodoStore(p) ==
    /\ pc[p] = "cs2"
    /\ pc' = [pc EXCEPT ![p] = "unlock"]
    /\ LET id == heap[loc[p]].ID
       IN  todos' = [k \in DOMAIN todos \cup {id} |-> IF k = id THEN loc[p] ELSE todos[k]]
    /\ nextID' = NextIDAfterCreate(nextID)
    /\ res' = [res EXCEPT ![p] = Ok(loc[p])]
    /\ UNCHANGED <<heap, mu, now, op, loc, calls, created, deleted, h>>

UpdateTodo(p) ==
    /\ pc[p] = "cs"
    /\ op[p].name = "UpdateTodo"
    /\ pc' = [pc EXCEPT ![p] = "unlock"]
    /\ IF op[p].id \in DOMAIN todos
       THEN /\ heap' = [heap EXCEPT ![todos[op[p].id]] = FromRequest(@, op[p].req, now)]
            /\ res' = [res EXCEPT ![p] = Ok(todos[op[p].id])]
            /\ h' = [q \in Callers |->
                        IF h[q].stage \in {"status", "fields"} /\ h[q].todo = todos[op[p].id]
                        THEN [h[q] EXCEPT !.seen = @ \cup {heap'[todos[op[p].id]]}]
                        ELSE h[q]]
       ELSE /\ heap' = heap
            /\ res' = [res EXCEPT ![p] = NotFound]
            /\ h' = h
    /\ UNCHANGED <<todos, nextID, mu, now, op, loc, calls, created, deleted>>

\* a delete that cuts the map off at the key
MapDeleteFrom(m, id) == [k \in {j \in DOMAIN m : j < id} |-> m[k]]

\* delete(s.todos, id)
MapDelete(m, id) == [k \in DOMAIN m \ {id} |-> m[k]]

\* a DeleteTodo without the existence check
DeleteTodoNoCheck(p) ==
    /\ pc[p] = "cs"
    /\ op[p].name = "DeleteTodo"
    /\ pc' = [pc EXCEPT ![p] = "unlock"]
    /\ todos' = MapDelete(todos, op[p].id)
    /\ deleted' = deleted \cup (DOMAIN todos \cap {op[p].id})
    /\ res' = [res EXCEPT ![p] = Ok(0)]
    /\ UNCHANGED <<heap, nextID, mu, now, op, loc, calls, created, h>>

DeleteTodo(p) ==
    /\ pc[p] = "cs"
    /\ op[p].name = "DeleteTodo"
    /\ pc' = [pc EXCEPT ![p] = "unlock"]
    /\ IF op[p].id \in DOMAIN todos
       THEN /\ todos' = MapDelete(todos, op[p].id)
            /\ deleted' = deleted \cup {op[p].id}
            /\ res' = [res EXCEPT ![p] = Ok(0)]
       ELSE /\ todos' = todos
            /\ deleted' = deleted
            /\ res' = [res EXCEPT ![p] = NotFound]
    /\ UNCHANGED <<heap, nextID, mu, now, op, loc, calls, created, h>>

\* strings.Contains(s, sub)
Contains(s, sub) ==
    \E i \in 0..(Len(s) - Len(sub)) : SubSeq(s, i + 1, i + Len(sub)) = sub

\* a matches that looks for the query in the title only
MatchesTitleOnly(t, f) ==
    /\ Len(f.query) # 0 => Contains(t.Title, f.query)
    /\ f.category # "" => t.Category = f.category
    /\ f.completed # "nil" => t.Completed = (f.completed = "true")

\* the variable matches of SearchTodos' loop, for the Todo t
Matches(t, f) ==
    /\ Len(f.query) # 0 => (Contains(t.Title, f.query) \/ Contains(t.Description, f.query))
    /\ f.category # "" => t.Category = f.category
    /\ f.completed # "nil" => t.Completed = (f.completed = "true")

\* a less function that compares the priorities only
SearchLessPriorityOnly(a, b) == heap[a].Priority > heap[b].Priority

\* the less function of SearchTodos' sort
SearchLess(a, b) ==
    IF heap[a].Priority # heap[b].Priority
    THEN heap[a].Priority > heap[b].Priority
    ELSE After(heap[a].CreatedAt, heap[b].CreatedAt)

\* the slice results of SearchTodos before it is sorted, as a set
SearchResults(f) == {a \in Stored : Matches(heap[a], f)}

\* the slices SearchTodos can return for the arguments f
SearchOrders(f) ==
    LET results == SearchResults(f)
    IN  SortSlice(results, {ab \in results \X results : SearchLess(ab[1], ab[2])})

SearchTodos(p) ==
    /\ pc[p] = "cs"
    /\ op[p].name = "SearchTodos"
    /\ pc' = [pc EXCEPT ![p] = "unlock"]
    /\ \E s \in SearchOrders(op[p].filter) : res' = [res EXCEPT ![p] = OkList(s)]
    /\ UNCHANGED <<todos, heap, nextID, mu, now, op, loc, calls, created, deleted, h>>

\* the map GetStats returns, computed at time tnow
\* statistics whose overdue count forgets the completed flag
StatsOverdueCountsCompleted(tnow) ==
    LET K == DOMAIN todos
        t(k) == heap[todos[k]]
    IN  [total       |-> Cardinality(K),
         completed   |-> Cardinality({k \in K : t(k).Completed}),
         pending     |-> Cardinality({k \in K : ~t(k).Completed}),
         overdue     |-> Cardinality({k \in K : /\ ~IsZero(t(k).DueDate)
                                                /\ Before(t(k).DueDate, tnow)}),
         by_priority |-> [pr \in {t(k).Priority : k \in K} |->
                            Cardinality({k \in K : t(k).Priority = pr})],
         by_category |-> [c \in {t(k).Category : k \in K} \ {""} |->
                            Cardinality({k \in K : t(k).Category = c})]]

\* the statistics GetStats computes at the instant tnow
Stats(tnow) ==
    LET K == DOMAIN todos
        t(k) == heap[todos[k]]
    IN  [total       |-> Cardinality(K),
         completed   |-> Cardinality({k \in K : t(k).Completed}),
         pending     |-> Cardinality({k \in K : ~t(k).Completed}),
         overdue     |-> Cardinality({k \in K : /\ ~t(k).Completed
                                                /\ ~IsZero(t(k).DueDate)
                                                /\ Before(t(k).DueDate, tnow)}),
         by_priority |-> [pr \in {t(k).Priority : k \in K} |->
                            Cardinality({k \in K : t(k).Priority = pr})],
         by_category |-> [c \in {t(k).Category : k \in K} \ {""} |->
                            Cardinality({k \in K : t(k).Category = c})]]

GetStats(p) ==
    /\ pc[p] = "cs"
    /\ op[p].name = "GetStats"
    /\ pc' = [pc EXCEPT ![p] = "unlock"]
    /\ res' = [res EXCEPT ![p] = OkStats(Stats(now))]
    /\ UNCHANGED <<todos, heap, nextID, mu, now, op, loc, calls, created, deleted, h>>

-----------------------------------------------------------------------------
(* The deferred unlock and the return to the caller *)

\* an RUnlock placed after the success path only, skipped by an error return
RUnlockOnSuccessOnly(p) ==
    /\ pc[p] = "unlock"
    /\ op[p].name \in ReadOps
    /\ mu' = IF res[p].err = ErrNil THEN [mu EXCEPT !.readers = @ \ {p}] ELSE mu
    /\ pc' = [pc EXCEPT ![p] = "ret"]
    /\ UNCHANGED <<todos, heap, nextID, now, op, loc, res, calls, created, deleted, h>>

\* defer s.mu.RUnlock()
RUnlock(p) ==
    /\ pc[p] = "unlock"
    /\ op[p].name \in ReadOps
    /\ mu' = [mu EXCEPT !.readers = @ \ {p}]
    /\ pc' = [pc EXCEPT ![p] = "ret"]
    /\ UNCHANGED <<todos, heap, nextID, now, op, loc, res, calls, created, deleted, h>>

\* defer s.mu.Unlock(); a CreateTodo hands its id to the caller
Unlock(p) ==
    /\ pc[p] = "unlock"
    /\ op[p].name \in WriteOps
    /\ mu' = [mu EXCEPT !.w = 0]
    /\ pc' = [pc EXCEPT ![p] = "ret"]
    /\ created' = IF op[p].name = "CreateTodo"
                  THEN Append(created, heap[res[p].val].ID)
                  ELSE created
    /\ UNCHANGED <<todos, heap, nextID, now, op, loc, res, calls, deleted, h>>

\* the caller is done with what the method returned
Done(p) ==
    /\ pc[p] = "ret"
    /\ pc' = [pc EXCEPT ![p] = "idle"]
    /\ op' = [op EXCEPT ![p] = NoOp]
    /\ loc' = [loc EXCEPT ![p] = 0]
    /\ res' = [res EXCEPT ![p] = NoRes]
    /\ UNCHANGED <<todos, heap, nextID, mu, now, calls, created, deleted, h>>

Next ==
    \/ Tick
    \/ \E p \in Callers :
        \/ Call(p)
        \/ RLock(p)
        \/ LockBegin(p)
        \/ LockEnter(p)
        \/ GetAllTodos(p)
        \/ GetTodoByID(p)
        \/ CreateTodoAlloc(p)
        \/ CreateTodoStore(p)
        \/ UpdateTodo(p)
        \/ DeleteTodo(p)
        \/ SearchTodos(p)
        \/ GetStats(p)
        \/ RUnlock(p)
        \/ Unlock(p)
        \/ Done(p)

Spec == Init /\ [][Next]_vars

\* the clock ticks a sequential run may see, enough to pass a seeded due date
MaxTicksSeq == 4

\* time passes in a sequential run
TickSeq ==
    /\ now < StartTime + MaxTicksSeq * Day
    /\ now' = now + 1
    /\ UNCHANGED <<todos, heap, nextID, mu, pc, op, loc, res, calls, created, deleted, h>>

\* a step of the store method that caller p has begun
Step(p) ==
    \/ RLock(p)
    \/ LockBegin(p)
    \/ LockEnter(p)
    \/ GetAllTodos(p)
    \/ GetTodoByID(p)
    \/ CreateTodoAlloc(p)
    \/ CreateTodoStore(p)
    \/ UpdateTodo(p)
    \/ DeleteTodo(p)
    \/ SearchTodos(p)
    \/ GetStats(p)
    \/ RUnlock(p)
    \/ Unlock(p)
    \/ Done(p)

\* the scheduler lets every goroutine that can take a step take one (every
\* step moves the caller's pc)
FairSpec == Spec /\ \A p \in Callers : WF_pc(Step(p))

\* one caller alone, its calls one after the other
NextSeq ==
    \/ TickSeq
    \/ Call(1)
    \/ RLock(1)
    \/ LockBegin(1)
    \/ LockEnter(1)
    \/ GetAllTodos(1)
    \/ GetTodoByID(1)
    \/ CreateTodoAlloc(1)
    \/ CreateTodoStore(1)
    \/ UpdateTodo(1)
    \/ DeleteTodo(1)
    \/ SearchTodos(1)
    \/ GetStats(1)
    \/ RUnlock(1)
    \/ Unlock(1)
    \/ Done(1)

SpecSeq == Init /\ [][NextSeq]_vars

-----------------------------------------------------------------------------
(* The HTTP handlers: each decodes its request, calls the store and builds   *)
(* its response from the *Todo the store returned, with no lock held.        *)

\* the requests the handlers may receive in all
MaxRequests == 2

\* a decoded JSON body without a title
ReqNoTitle == [ReqFull EXCEPT !.Title = <<>>]

\* a decoded JSON body for a Todo that is not done and was due before the
\* process started
ReqLate == [ReqMinimal EXCEPT !.Title = <<"d">>, !.Priority = 1, !.DueDate = 2 * Day]

Bodies == Requests \cup {ReqNoTitle, ReqLate}

\* the ids in the request paths: seeded ones and the first a Create assigns
HandlerIds == {1, 2, SeedCount + 1}

HReq(name, id, req) == [name |-> name, id |-> id, req |-> req]

HandlerRequests ==
    {HReq("GetTodo", i, NoReq) : i \in HandlerIds}
    \cup {HReq("CreateTodo", 0, r) : r \in Bodies}
    \cup {HReq("UpdateTodo", i, r) : i \in HandlerIds, r \in Bodies}
    \cup {HReq("DeleteTodo", i, NoReq) : i \in HandlerIds}
    \cup {HReq("CompleteTodo", i, NoReq) : i \in HandlerIds}

\* a title check that lets every body through
TitleMissingNever(req) == FALSE

\* req.Title == ""
TitleMissing(req) == Len(req.Title) = 0

\* the requests CreateTodo and UpdateTodo answer with 400 before any store call
Rejects(r) == r.name \in {"CreateTodo", "UpdateTodo"} /\ TitleMissing(r.req)

\* the store method a handler calls first
StoreCall(r) ==
    CASE r.name = "GetTodo" -> Op("GetTodoByID", r.id, NoReq, NoFilter)
      [] r.name = "CreateTodo" -> Op("CreateTodo", 0, r.req, NoFilter)
      [] r.name = "UpdateTodo" -> Op("UpdateTodo", r.id, r.req, NoFilter)
      [] r.name = "DeleteTodo" -> Op("DeleteTodo", r.id, NoReq, NoFilter)
      [] r.name = "CompleteTodo" -> Op("GetTodoByID", r.id, NoReq, NoFilter)

\* sendError, or sendJSON of something that is not a Todo
Sent(x, code) == [x EXCEPT !.stage = "sent", !.code = code, !.todo = 0, !.n = 0]

\* the handler goes on to todo.ToResponse() for the Todo at address a
Responding(x, a, code) ==
    [x EXCEPT !.stage = "status", !.todo = a, !.n = 0, !.code = code, !.seen = {heap[a]}]

\* the request req with the fields named in names read from the Todo t
ReadRequestFields(req, t, names) ==
    [Title       |-> IF "Title" \in names THEN t.Title ELSE req.Title,
     Description |-> IF "Description" \in names THEN t.Description ELSE req.Description,
     Completed   |-> req.Completed,
     Priority    |-> IF "Priority" \in names THEN t.Priority ELSE req.Priority,
     Category    |-> IF "Category" \in names THEN t.Category ELSE req.Category,
     DueDate     |-> IF "DueDate" \in names THEN t.DueDate ELSE req.DueDate]

\* the response out with the fields named in names read from the Todo t
ReadResponseFields(out, t, names) ==
    [ID          |-> IF "ID" \in names THEN t.ID ELSE out.ID,
     Title       |-> IF "Title" \in names THEN t.Title ELSE out.Title,
     Description |-> IF "Description" \in names THEN t.Description ELSE out.Description,
     Completed   |-> IF "Completed" \in names THEN t.Completed ELSE out.Completed,
     Priority    |-> IF "Priority" \in names THEN t.Priority ELSE out.Priority,
     Category    |-> IF "Category" \in names THEN t.Category ELSE out.Category,
     DueDate     |-> IF "DueDate" \in names THEN t.DueDate ELSE out.DueDate,
     CreatedAt   |-> IF "CreatedAt" \in names THEN t.CreatedAt ELSE out.CreatedAt,
     UpdatedAt   |-> IF "UpdatedAt" \in names THEN t.UpdatedAt ELSE out.UpdatedAt,
     Status      |-> out.Status,
     IsOverdue   |-> out.IsOverdue]

\* a handler receives its request, checks it and calls the store
Request(p) ==
    /\ pc[p] = "idle"
    /\ h[p].stage = "idle"
    /\ calls < MaxRequests
    /\ calls' = calls + 1
    /\ \E r \in HandlerRequests :
        LET x == [NoHandler EXCEPT !.name = r.name, !.id = r.id, !.req = r.req]
        IN  IF Rejects(r)
            THEN /\ h' = [h EXCEPT ![p] = Sent(x, 400)]
                 /\ UNCHANGED <<pc, op>>
            ELSE /\ r.name = "CreateTodo" =>
                        Len(heap) + PendingCreates < SeedCount + MaxCreates
                 /\ h' = [h EXCEPT ![p] = [x EXCEPT !.stage = "store"]]
                 /\ pc' = [pc EXCEPT ![p] = "lock"]
                 /\ op' = [op EXCEPT ![p] = StoreCall(r)]
    /\ UNCHANGED <<todos, heap, nextID, mu, now, loc, res, created, deleted>>

\* what a handler does with what the store method returned
AfterStore(x, r) ==
    CASE x.name = "GetTodo" ->
            IF r.err # ErrNil THEN Sent(x, 404) ELSE Responding(x, r.val, 200)
      [] x.name = "CreateTodo" ->
            IF r.err # ErrNil THEN Sent(x, 500) ELSE Responding(x, r.val, 201)
      [] x.name = "UpdateTodo" ->
            IF r.err # ErrNil THEN Sent(x, 404) ELSE Responding(x, r.val, 200)
      [] x.name = "DeleteTodo" ->
            IF r.err # ErrNil THEN Sent(x, 404) ELSE Sent(x, 200)
      [] x.name = "CompleteTodo" /\ x.stage = "store" ->
            IF r.err # ErrNil THEN Sent(x, 404)
            ELSE [x EXCEPT !.stage = "build", !.todo = r.val, !.n = 0,
                           !.req = [NoReq EXCEPT !.Completed = TRUE]]
      [] x.name = "CompleteTodo" /\ x.stage = "update" ->
            IF r.err # ErrNil THEN Sent(x, 500) ELSE Responding(x, r.val, 200)

\* the store method returns to the handler
Returned(p) ==
    /\ pc[p] = "ret"
    /\ h[p].stage \in {"store", "update"}
    /\ pc' = [pc EXCEPT ![p] = "idle"]
    /\ h' = [h EXCEPT ![p] = AfterStore(h[p], res[p])]
    /\ op' = [op EXCEPT ![p] = NoOp]
    /\ loc' = [loc EXCEPT ![p] = 0]
    /\ res' = [res EXCEPT ![p] = NoRes]
    /\ UNCHANGED <<todos, heap, nextID, mu, now, calls, created, deleted>>

\* the fields CompleteTodo copies from the Todo into its request, in order
BuildFields == <<"Title", "Description", "Priority", "Category", "DueDate">>

\* CompleteTodo reads the next fields of the Todo into its request, and
\* calls UpdateTodo once it has read the last; the fields are read one after
\* the other with no lock held, so another goroutine may write in between
CompleteBuild(p) ==
    /\ h[p].stage = "build"
    /\ \E m \in (h[p].n + 1)..Len(BuildFields) :
        LET req == ReadRequestFields(h[p].req, heap[h[p].todo],
                                     {BuildFields[i] : i \in (h[p].n + 1)..m})
        IN  IF m < Len(BuildFields)
            THEN /\ h' = [h EXCEPT ![p].req = req, ![p].n = m]
                 /\ UNCHANGED <<pc, op>>
            ELSE /\ h' = [h EXCEPT ![p].req = req, ![p].n = 0, ![p].todo = 0,
                                   ![p].stage = "update"]
                 /\ pc' = [pc EXCEPT ![p] = "lock"]
                 /\ op' = [op EXCEPT ![p] = Op("UpdateTodo", h[p].id, req, NoFilter)]
    /\ UNCHANGED <<todos, heap, nextID, mu, now, loc, res, calls, created, deleted>>

\* an isOverdue that does not look at the completed flag
IsOverdueIgnoresCompleted(t, tnow) == ~IsZero(t.DueDate) /\ Before(t.DueDate, tnow)

\* isOverdue in ToResponse
IsOverdue(t, tnow) == ~t.Completed /\ ~IsZero(t.DueDate) /\ Before(t.DueDate, tnow)

\* status in ToResponse: "completed", "overdue" and "in_progress" stand
\* for the three status texts
StatusOf(t, tnow) ==
    IF t.Completed THEN "completed"
    ELSE IF IsOverdue(t, tnow) THEN "overdue" ELSE "in_progress"

\* ToResponse computes isOverdue and status
ToResponseStatus(p) ==
    /\ h[p].stage = "status"
    /\ h' = [h EXCEPT ![p].stage = "fields",
                      ![p].out = [@ EXCEPT !.Status = StatusOf(heap[h[p].todo], now),
                                           !.IsOverdue = IsOverdue(heap[h[p].todo], now)]]
    /\ UNCHANGED <<todos, heap, nextID, mu, now, pc, op, loc, res, calls, created, deleted>>

\* ToResponse reads the next fields of the Todo into the response; after the
\* last one the response is complete
ToResponseFields(p) ==
    /\ h[p].stage = "fields"
    /\ \E m \in (h[p].n + 1)..Len(TodoFields) :
        h' = [h EXCEPT ![p].out = ReadResponseFields(@, heap[h[p].todo],
                                                     {TodoFields[i] : i \in (h[p].n + 1)..m}),
                       ![p].n = m,
                       ![p].stage = IF m = Len(TodoFields) THEN "sent" ELSE "fields"]
    /\ UNCHANGED <<todos, heap, nextID, mu, now, pc, op, loc, res, calls, created, deleted>>

\* the response goes out and the handler returns
SendJSON(p) ==
    /\ h[p].stage = "sent"
    /\ h' = [h EXCEPT ![p] = NoHandler]
    /\ UNCHANGED <<todos, heap, nextID, mu, now, pc, op, loc, res, calls, created, deleted>>

\* the server: every caller is a goroutine that runs one of the handlers of
\* single Todos at a time
NextHandlers ==
    \/ Tick
    \/ \E p \in Callers :
        \/ Request(p)
        \/ RLock(p)
        \/ LockBegin(p)
        \/ LockEnter(p)
        \/ GetTodoByID(p)
        \/ CreateTodoAlloc(p)
        \/ CreateTodoStore(p)
        \/ UpdateTodo(p)
        \/ DeleteTodo(p)
        \/ RUnlock(p)
        \/ Unlock(p)
        \/ Returned(p)
        \/ CompleteBuild(p)
        \/ ToResponseStatus(p)
        \/ ToResponseFields(p)
        \/ SendJSON(p)

SpecHandlers == Init /\ [][NextHandlers]_vars

TypeOK ==
    /\ nextID \in Nat
    /\ \A k \in DOMAIN todos : todos[k] \in 1..Len(heap)
    /\ mu.w \in Callers \cup {0}
    /\ mu.readers \subseteq Callers

-----------------------------------------------------------------------------
(* Properties *)

InCS(p) == pc[p] \in {"cs", "cs2", "unlock"}

WritersInside == {p \in Callers : op[p].name \in WriteOps /\ InCS(p)}

ReadersInside == {p \in Callers : op[p].name \in ReadOps /\ InCS(p)}

\* C1: the ids that successive CreateTodo calls return are strictly increasing,
\* so none is returned twice, also when the record of an earlier id was
\* deleted before the later Create.
C1_CreatedIdsIncrease ==
    \A i, j \in 1..Len(created) : i < j => created[i] < created[j]

\* a Create has stored its record after the id of an earlier Create was deleted
C1_Witness ==
    /\ Len(created) = 1
    /\ created[1] \in deleted
    /\ \E p \in Callers : op[p].name = "CreateTodo" /\ pc[p] = "unlock"
                            /\ heap[res[p].val].ID > created[1]

\* C2: callers that run CreateTodo concurrently receive distinct ids, and the
\* very record each one was handed is in the map under its id unless a
\* DeleteTodo removed it: no Create overwrites or loses another.
C2_ConcurrentCreatesDistinct ==
    /\ \A i, j \in 1..Len(created) : i # j => created[i] # created[j]
    /\ \A i \in 1..Len(created) : created[i] \in DOMAIN todos \cup deleted
    /\ \A p \in Callers :
        (op[p].name = "CreateTodo" /\ pc[p] \in {"unlock", "ret"}) =>
            LET id == heap[res[p].val].ID
            IN  /\ id \in DOMAIN todos \cup deleted
                /\ id \in DOMAIN todos => todos[id] = res[p].val
                /\ \A q \in Callers \ {p} :
                    (op[q].name = "CreateTodo" /\ pc[q] \in {"unlock", "ret"})
                        => heap[res[q].val].ID # id

\* two Creates in flight together: one has returned while the other, which was
\* called before that return, is still blocked on the lock or inside
C2_Witness ==
    \E p, q \in Callers :
        /\ p # q
        /\ op[p].name = "CreateTodo" /\ pc[p] = "unlock"
        /\ op[q].name = "CreateTodo" /\ pc[q] = "lock"

\* C3: at most one write is inside its critical section, no read is inside
\* while a write is; reads may be inside together.
C3_ReadersWriterExclusion ==
    /\ Cardinality(WritersInside) <= 1
    /\ WritersInside # {} => ReadersInside = {}

\* two reads inside their critical sections at the same time
C3_Witness == Cardinality(ReadersInside) >= 2

\* the Todo objects the caller p holds once the method has returned
Held(p) ==
    IF res[p].err # ErrNil THEN {}
    ELSE IF op[p].name \in {"GetTodoByID", "CreateTodo", "UpdateTodo"} THEN {res[p].val}
    ELSE IF op[p].name \in {"GetAllTodos", "SearchTodos"}
         THEN {res[p].list[i] : i \in 1..Len(res[p].list)}
    ELSE {}

\* C4: what a method handed to a caller is a copy: after the return no Update
\* by anyone changes the value the caller holds.
C4_CallerHoldsCopy ==
    [][\A p \in Callers :
        (pc[p] = "ret" /\ pc'[p] = "ret") => \A a \in Held(p) : heap'[a] = heap[a]]_vars

\* the caller p runs the body of the method name in this step
Runs(p, name) == pc[p] = "cs" /\ pc'[p] = "unlock" /\ op[p].name = name

\* C5: GetTodoByID, UpdateTodo and DeleteTodo of an id that is not in the map
\* fail with ErrTodoNotFound and leave the map, every Todo and nextID as they
\* were.
C5_NotFoundLeavesStore ==
    [][\A p \in Callers :
        ((Runs(p, "GetTodoByID") \/ Runs(p, "UpdateTodo") \/ Runs(p, "DeleteTodo"))
            /\ op[p].id \notin DOMAIN todos)
        => (res'[p] = NotFound /\ todos' = todos /\ heap' = heap /\ nextID' = nextID)]_vars

\* an Update and a Delete have both failed with not-found
C5_Witness ==
    \E p, q \in Callers :
        /\ op[p].name = "UpdateTodo" /\ pc[p] \in {"unlock", "ret"}
        /\ res[p].err = ErrTodoNotFound
        /\ op[q].name = "DeleteTodo" /\ pc[q] \in {"unlock", "ret"}
        /\ res[q].err = ErrTodoNotFound

\* C6: an id that DeleteTodo removed is never in the map again, whatever
\* Create, Update and Delete follow; GetTodoByID and a second DeleteTodo of it
\* fail with ErrTodoNotFound.
C6_DeletedStaysAbsent ==
    [][/\ deleted' \cap DOMAIN todos' = {}
       /\ \A i \in deleted' : Lookup(i)' = NotFound
       /\ \A p \in Callers :
            ((Runs(p, "GetTodoByID") \/ Runs(p, "DeleteTodo")) /\ op[p].id \in deleted)
                => res'[p] = NotFound]_vars

\* a second Delete of a deleted id has failed after a later Create
C6_Witness ==
    \E p \in Callers :
        /\ op[p].name = "DeleteTodo" /\ pc[p] = "unlock"
        /\ res[p].err = ErrTodoNotFound
        /\ op[p].id \in deleted
        /\ Len(created) >= 1

SameFields(t, req) ==
    /\ t.Title = req.Title
    /\ t.Description = req.Description
    /\ t.Completed = req.Completed
    /\ t.Priority = req.Priority
    /\ t.Category = req.Category
    /\ t.DueDate = req.DueDate

\* C7: the Todo that CreateTodo returns has the request's title, description,
\* completed, priority, category and due_date (completed false when the
\* request leaves it out) and updated_at equal to created_at, and a
\* GetTodoByID of its id right then returns that same Todo.
C7_CreateReturnsRequest ==
    \A p \in Callers :
        (op[p].name = "CreateTodo" /\ pc[p] = "unlock") =>
            LET t == heap[res[p].val]
            IN  /\ res[p].err = ErrNil
                /\ SameFields(t, op[p].req)
                /\ t.UpdatedAt = t.CreatedAt
                /\ ~IsZero(t.CreatedAt)
                /\ Lookup(t.ID) = Ok(res[p].val)

\* a Create from a request that supplies the title only has stored its Todo
C7_Witness ==
    \E p \in Callers :
        /\ op[p].name = "CreateTodo" /\ pc[p] = "unlock"
        /\ op[p].req = ReqMinimal
        /\ ~heap[res[p].val].Completed

\* C8: UpdateTodo of a stored id leaves every mutable field of the Todo equal
\* to the request's, empty ones included, updated_at not earlier than before,
\* id and created_at as they were.
C8_UpdateReplaces ==
    [][\A p \in Callers :
        (Runs(p, "UpdateTodo") /\ op[p].id \in DOMAIN todos) =>
            LET a == todos[op[p].id]
            IN  /\ res'[p] = Ok(a)
                /\ todos' = todos
                /\ SameFields(heap'[a], op[p].req)
                /\ heap'[a].UpdatedAt >= heap[a].UpdatedAt
                /\ heap'[a].ID = heap[a].ID
                /\ heap'[a].CreatedAt = heap[a].CreatedAt]_vars

\* an Update has emptied the description, category and due date of a seeded
\* Todo and moved its updated_at forward
C8_Witness ==
    \E p \in Callers :
        /\ op[p].name = "UpdateTodo" /\ pc[p] = "unlock"
        /\ op[p].id = 1 /\ op[p].req = ReqMinimal
        /\ res[p].err = ErrNil
        /\ Len(heap[res[p].val].Description) = 0
        /\ heap[res[p].val].Category = ""
        /\ heap[res[p].val].UpdatedAt > heap[res[p].val].CreatedAt

\* C9 as stated: the first Create of a fresh store returns 1, the n-th n.
C9_NthCreateReturnsN ==
    \A n \in 1..Len(created) : created[n] = n

\* C9: construction seeds the ids 1 to 3 and leaves the counter at 4: the
\* first Create of a fresh store returns 4, the n-th n + 3.
C9_NthCreateReturnsNPlus3 ==
    \A n \in 1..Len(created) : created[n] = n + 3

\* two Creates have returned
C9_Witness == Len(created) >= 2

\* the list s holds every stored Todo exactly once
ListsAll(s) ==
    /\ Len(s) = Cardinality(DOMAIN todos)
    /\ {s[i] : i \in 1..Len(s)} = Stored
    /\ \A i, j \in 1..Len(s) : i # j => s[i] # s[j]

\* C10 as stated: GetAllTodos returns every stored Todo exactly once, and a
\* Todo of a later Create before a Todo of an earlier Create, also when both
\* Creates read the same clock value.
C10_LaterCreateFirst ==
    \A p \in Callers :
        (op[p].name = "GetAllTodos" /\ pc[p] = "unlock") =>
            LET s == res[p].list
            IN  /\ ListsAll(s)
                /\ \A i, j \in 1..Len(s) :
                    (s[i] > SeedCount /\ s[j] > SeedCount /\ heap[s[i]].ID > heap[s[j]].ID)
                        => i < j

\* C10: GetAllTodos returns every stored Todo exactly once, and a Todo with a
\* later created_at before a Todo with an earlier one; Todos with the same
\* created_at come in either order.
C10_LaterCreatedAtFirst ==
    \A p \in Callers :
        (op[p].name = "GetAllTodos" /\ pc[p] = "unlock") =>
            LET s == res[p].list
            IN  /\ ListsAll(s)
                /\ \A i, j \in 1..Len(s) :
                    After(heap[s[i]].CreatedAt, heap[s[j]].CreatedAt) => i < j

\* a list that holds the seeded Todos and two created under one clock value
C10_Witness ==
    \E p \in Callers :
        /\ op[p].name = "GetAllTodos" /\ pc[p] = "unlock"
        /\ \E i, j \in 1..Len(res[p].list) :
            /\ i # j
            /\ res[p].list[i] > SeedCount /\ res[p].list[j] > SeedCount
            /\ heap[res[p].list[i]].CreatedAt = heap[res[p].list[j]].CreatedAt
        /\ \E i \in 1..Len(res[p].list) : res[p].list[i] <= SeedCount

\* the search arguments the filter is examined for
AllFilters ==
    [query : {<<>>, <<"a">>, <<"B">>, <<"g", "o">>},
     category : {"", "c", "study"},
     completed : {"nil", "true", "false"}]

\* sub occurs in s, character for character
IsSubstring(sub, s) ==
    \E i \in 0..(Len(s) - Len(sub)) : \A k \in 1..Len(sub) : s[i + k] = sub[k]

\* the Todo t satisfies every criterion that f supplies
Satisfies(t, f) ==
    /\ \/ f.query = <<>>
       \/ IsSubstring(f.query, t.Title)
       \/ IsSubstring(f.query, t.Description)
    /\ f.category = "" \/ t.Category = f.category
    /\ \/ f.completed = "nil"
       \/ f.completed = "true" /\ t.Completed
       \/ f.completed = "false" /\ ~t.Completed

\* C11: SearchTodos returns exactly the stored Todos that satisfy every
\* supplied criterion (query a case-sensitive substring of title or
\* description, category equal, completed equal); with no criterion every
\* stored Todo, with completed=true alone exactly the completed ones.
C11_SearchReturnsMatches ==
    /\ \A f \in AllFilters :
            SearchResults(f) = {a \in Stored : Satisfies(heap[a], f)}
    /\ SearchResults(NoFilter) = Stored
    /\ SearchResults([NoFilter EXCEPT !.completed = "true"])
            = {a \in Stored : heap[a].Completed}
    /\ \A p \in Callers :
        (op[p].name = "SearchTodos" /\ pc[p] = "unlock") =>
            LET s == res[p].list
            IN  /\ {s[i] : i \in 1..Len(s)} = {a \in Stored : Satisfies(heap[a], op[p].filter)}
                /\ Len(s) = Cardinality({s[i] : i \in 1..Len(s)})

\* a search by query, category and completed has returned some of the stored
\* Todos and left others out, while a Todo holds the query in another case
C11_Witness ==
    \E p \in Callers :
        /\ op[p].name = "SearchTodos" /\ pc[p] = "unlock"
        /\ op[p].filter.query = <<"a">> /\ op[p].filter.completed = "true"
        /\ Len(res[p].list) >= 1
        /\ Len(res[p].list) < Cardinality(Stored)
        /\ \E a \in Stored : heap[a].Title = <<"b">> /\ ~IsSubstring(<<"B">>, heap[a].Title)

\* x may stand right before y in a search result
InSearchOrder(x, y) ==
    \/ x.Priority > y.Priority
    \/ x.Priority = y.Priority /\ ~Before(x.CreatedAt, y.CreatedAt)

\* C12: in every SearchTodos result each Todo has a higher priority than the
\* next one, or the same priority and a created_at that is not earlier.
C12_SearchOrder ==
    /\ \A f \in AllFilters : \A s \in SearchOrders(f) :
            \A i \in 1..(Len(s) - 1) : InSearchOrder(heap[s[i]], heap[s[i + 1]])
    /\ \A p \in Callers :
        (op[p].name = "SearchTodos" /\ pc[p] = "unlock") =>
            \A i \in 1..(Len(res[p].list) - 1) :
                InSearchOrder(heap[res[p].list[i]], heap[res[p].list[i + 1]])

\* a search result with neighbours of different priorities and neighbours of
\* one priority and different created_at
C12_Witness ==
    \E p \in Callers :
        /\ op[p].name = "SearchTodos" /\ pc[p] = "unlock"
        /\ LET s == res[p].list
           IN  /\ \E i \in 1..(Len(s) - 1) : heap[s[i]].Priority > heap[s[i + 1]].Priority
               /\ \E i \in 1..(Len(s) - 1) :
                    /\ heap[s[i]].Priority = heap[s[i + 1]].Priority
                    /\ After(heap[s[i]].CreatedAt, heap[s[i + 1]].CreatedAt)

\* the instants a statistic may be taken at, up to past the last seeded due date
Instants == 0..(StartTime + 8 * Day)

RECURSIVE SumOver(_, _)
\* the sum of the counts f holds for the keys in D
SumOver(f, D) ==
    IF D = {} THEN 0
    ELSE LET d == CHOOSE x \in D : TRUE IN f[d] + SumOver(f, D \ {d})

\* the statistics st are those of the stored Todos at the instant t
StatsAgree(st, t) ==
    /\ st.total = Cardinality(Stored)
    /\ st.completed = Cardinality({a \in Stored : heap[a].Completed})
    /\ st.pending = st.total - st.completed
    /\ st.overdue = Cardinality({a \in Stored : /\ heap[a].Completed = FALSE
                                                /\ heap[a].DueDate # 0
                                                /\ heap[a].DueDate < t})
    /\ DOMAIN st.by_priority = {heap[a].Priority : a \in Stored}
    /\ \A pr \in DOMAIN st.by_priority :
            st.by_priority[pr] = Cardinality({a \in Stored : heap[a].Priority = pr})
    /\ SumOver(st.by_priority, DOMAIN st.by_priority) = st.total
    /\ DOMAIN st.by_category = {heap[a].Category : a \in Stored} \ {""}
    /\ \A c \in DOMAIN st.by_category :
            st.by_category[c] = Cardinality({a \in Stored : heap[a].Category = c})
    /\ Stored = {} =>
            /\ st.total = 0 /\ st.completed = 0 /\ st.pending = 0 /\ st.overdue = 0
            /\ DOMAIN st.by_priority = {} /\ DOMAIN st.by_category = {}

\* C13: the statistics of any store state at any instant are the counts of
\* the stored Todos (total, completed, pending = total - completed, overdue =
\* not completed with a set due date before the instant, per priority summing
\* to total, per non-empty category), all zero and empty on an empty store;
\* and a GetStats call returns those counts for an instant of its run.
C13_StatsCounts ==
    /\ \A t \in Instants : StatsAgree(Stats(t), t)
    /\ \A p \in Callers :
        (op[p].name = "GetStats" /\ pc[p] = "unlock") =>
            \E t \in StartTime..now : StatsAgree(res[p].stats, t)

\* a GetStats call that counted an overdue Todo beside a completed one with a
\* past due date, a Todo without a category and two Todos of one priority
C13_Witness ==
    \E p \in Callers :
        /\ op[p].name = "GetStats" /\ pc[p] = "unlock"
        /\ res[p].stats.overdue >= 1
        /\ res[p].stats.completed >= 1
        /\ res[p].stats.pending > res[p].stats.overdue
        /\ \E a \in Stored : heap[a].Completed /\ heap[a].DueDate # 0 /\ heap[a].DueDate < now
        /\ \E a \in Stored : heap[a].Category = ""
        /\ \E pr \in DOMAIN res[p].stats.by_priority : res[p].stats.by_priority[pr] >= 2

\* C14: every stored Todo has updated_at >= created_at, and from one state to
\* the next a Todo that stays stored keeps its created_at, whatever is done
\* to it.
C14_CreatedAtFixed ==
    /\ [](\A a \in Stored : ~Before(heap[a].UpdatedAt, heap[a].CreatedAt))
    /\ [][\A k \in DOMAIN todos \cap DOMAIN todos' :
            heap'[todos'[k]].CreatedAt = heap[todos[k]].CreatedAt]_vars

\* a created Todo that an Update changed after the clock had moved on
C14_Witness ==
    \E k \in DOMAIN todos :
        /\ k > SeedCount
        /\ After(heap[todos[k]].UpdatedAt, heap[todos[k]].CreatedAt)
        /\ \E p \in Callers : op[p].name = "UpdateTodo" /\ op[p].id = k /\ pc[p] = "unlock"

\* C20: a DeleteTodo of a stored id removes that key and no other, leaves
\* every other record with all its fields, and leaves nextID as it was.
C20_DeleteRemovesOne ==
    [][\A p \in Callers :
        (Runs(p, "DeleteTodo") /\ op[p].id \in DOMAIN todos)
        => /\ res'[p] = Ok(0)
           /\ DOMAIN todos' = DOMAIN todos \ {op[p].id}
           /\ \A k \in DOMAIN todos \ {op[p].id} :
                k \in DOMAIN todos' /\ heap'[todos'[k]] = heap[todos[k]]
           /\ nextID' = nextID]_vars

\* after a Create, a record with a lower and a higher neighbour has been
\* deleted: both neighbours remain and nextID is what the Create left
C20_Witness ==
    \E p \in Callers :
        /\ op[p].name = "DeleteTodo" /\ pc[p] = "unlock" /\ res[p] = Ok(0)
        /\ op[p].id \notin DOMAIN todos
        /\ \E j, k \in DOMAIN todos : j < op[p].id /\ op[p].id < k
        /\ nextID = SeedCount + 2

\* C15: a caller that has returned holds neither the read nor the write
\* lock, whatever the method returned; while a method is under way some
\* caller can take a step; and every method that has begun returns.
C15_EveryCallReturns ==
    /\ [](\A p \in Callers :
            pc[p] \in {"idle", "ret"} => (p \notin mu.readers /\ mu.w # p))
    /\ []((\E p \in Callers : pc[p] # "idle") => ENABLED (\E p \in Callers : Step(p)))
    /\ \A p \in Callers : (pc[p] = "lock") ~> (pc[p] = "ret")

\* an UpdateTodo has returned not-found, and after it another writer is inside
\* while the first caller's next call waits for the lock
C15_Witness ==
    \E p, q \in Callers :
        /\ p # q
        /\ op[p].name = "UpdateTodo" /\ pc[p] = "ret" /\ res[p] = NotFound
        /\ op[q].name \in WriteOps /\ pc[q] \in {"cs", "cs2"}
        /\ mu.w = q

\* the Todo a response carries: its fields without status and is_overdue
TodoOf(out) ==
    [ID |-> out.ID, Title |-> out.Title, Description |-> out.Description,
     Completed |-> out.Completed, Priority |-> out.Priority, Category |-> out.Category,
     DueDate |-> out.DueDate, CreatedAt |-> out.CreatedAt, UpdatedAt |-> out.UpdatedAt]

\* C16: the Todo in the response of a GET by id is the record as it stood
\* at one moment: one of the values the record has had since the store
\* returned it, never fields of one value beside fields of another.
C16_ResponseIsSnapshot ==
    \A p \in Callers :
        (h[p].name = "GetTodo" /\ h[p].stage = "sent" /\ h[p].code = 200)
        => TodoOf(h[p].out) \in h[p].seen

\* C17: every stored Todo has a priority from 1 to 5 in every state the
\* handlers can bring the store to.
C17_PriorityInRange ==
    \A a \in Stored : heap[a].Priority \in 1..5

\* C18: a create or update request without a title is answered with 400
\* in the step that receives it, with no store method called and the store
\* as it was; and every stored Todo has a title.
C18_EmptyTitleRejected ==
    /\ [](\A a \in Stored : Len(heap[a].Title) > 0)
    /\ [][\A p \in Callers :
            (h[p].stage = "idle" /\ h'[p].name \in {"CreateTodo", "UpdateTodo"}
                /\ Len(h'[p].req.Title) = 0)
            => /\ h'[p].stage = "sent" /\ h'[p].code = 400
               /\ pc'[p] = "idle" /\ op'[p] = NoOp
               /\ todos' = todos /\ heap' = heap /\ nextID' = nextID]_vars

\* an update without a title has been refused while a CompleteTodo, which
\* takes its title from the stored Todo, is writing
C18_Witness ==
    \E p, q \in Callers :
        /\ h[p].name = "UpdateTodo" /\ h[p].req = ReqNoTitle
        /\ h[p].stage = "sent" /\ h[p].code = 400
        /\ h[q].name = "CompleteTodo" /\ h[q].stage = "update" /\ pc[q] = "unlock"
        /\ res[q].err = ErrNil

\* C19: the UpdateTodo of a complete request changes the completed flag and
\* updated_at only: title, description, priority, category and due_date
\* stay what the last Update before it wrote.
C19_CompleteKeepsFields ==
    [][\A p \in Callers :
        (Runs(p, "UpdateTodo") /\ h[p].name = "CompleteTodo" /\ op[p].id \in DOMAIN todos)
        => \A i \in 1..Len(BuildFields) :
            heap'[todos[op[p].id]][BuildFields[i]] = heap[todos[op[p].id]][BuildFields[i]]]_vars

\* C21: no step of a GetAllTodos, GetTodoByID, SearchTodos or GetStats call,
\* from taking the read lock to its return, changes the map, a Todo or
\* nextID.
C21_ReadsLeaveStore ==
    [][\A p \in Callers :
        (op[p].name \in ReadOps /\ pc'[p] # pc[p])
        => (todos' = todos /\ heap' = heap /\ nextID' = nextID)]_vars

\* a list of all Todos, a created one among them, and a successful
\* GetTodoByID have both run their bodies
C21_Witness ==
    \E p, q \in Callers :
        /\ op[p].name = "GetAllTodos" /\ pc[p] = "unlock"
        /\ Len(res[p].list) > SeedCount
        /\ op[q].name = "GetTodoByID" /\ pc[q] = "unlock" /\ res[q].err = ErrNil

\* the ids that are stored or were stored or returned by a Create
EverAssigned == DOMAIN todos \cup deleted \cup {created[i] : i \in 1..Len(created)}

\* C22: every record is stored under the key that is its ID, and nextID is
\* greater than every id stored or ever assigned; a CreateTodo adds one key,
\* the ID of its Todo, keeps the others and adds one to nextID; no step of an
\* UpdateTodo or DeleteTodo changes nextID.
C22_KeysAndCounter ==
    /\ [](/\ \A k \in DOMAIN todos : heap[todos[k]].ID = k
          /\ \A i \in EverAssigned : nextID > i)
    /\ [][\A p \in Callers :
            /\ (op[p].name = "CreateTodo" /\ pc[p] = "cs2" /\ pc'[p] = "unlock")
                => /\ \E id \in (DOMAIN todos') \ DOMAIN todos :
                        /\ DOMAIN todos' = DOMAIN todos \cup {id}
                        /\ heap'[todos'[id]].ID = id
                   /\ Cardinality(DOMAIN todos') = Cardinality(DOMAIN todos) + 1
                   /\ \A k \in DOMAIN todos : todos'[k] = todos[k]
                   /\ nextID' = nextID + 1
            /\ (op[p].name = "CreateTodo" /\ pc'[p] # pc[p] /\ pc[p] # "cs2")
                => todos' = todos /\ nextID' = nextID
            /\ (op[p].name \in {"UpdateTodo", "DeleteTodo"} /\ pc'[p] # pc[p])
                => nextID' = nextID]_vars

\* an UpdateTodo has run after the id a Create returned was deleted: nextID is
\* still one above that id, which is stored no more
C22_Witness ==
    /\ Len(created) = 1
    /\ created[1] \in deleted
    /\ nextID = created[1] + 1
    /\ \E p \in Callers : op[p].name = "UpdateTodo" /\ pc[p] = "unlock" /\ res[p].err = ErrNil

\* is_overdue and status as the response form is to derive them from the
\* Todo t at the instant i
DerivedRight(t, i, isOverdue, status) ==
    /\ isOverdue = (t.Completed = FALSE /\ t.DueDate # 0 /\ t.DueDate < i)
    /\ status \in {"completed", "overdue", "in_progress"}
    /\ status = "completed" <=> t.Completed = TRUE
    /\ status = "overdue" <=> (t.Completed = FALSE /\ isOverdue)
    /\ status = "in_progress" <=> (t.Completed = FALSE /\ ~isOverdue)

\* C23: for every Todo, at the current instant, at its due date and at the
\* instant after it, is_overdue is true exactly when the Todo
\* is not completed and has a due date before the instant, and status is
\* completed for a completed Todo, else overdue when is_overdue, else in
\* progress; the overdue count of the statistics at an instant is the number
\* of stored Todos with is_overdue at that instant (now, and the instant
\* after each stored due date); and ToResponse puts these
\* values, for the Todo as it is and the time as it is, into the response.
C23_DerivedStatus ==
    /\ [](\A a \in 1..Len(heap) : \A i \in {now, heap[a].DueDate, heap[a].DueDate + 1} :
            DerivedRight(heap[a], i, IsOverdue(heap[a], i), StatusOf(heap[a], i)))
    /\ [](\A i \in {now} \cup {heap[a].DueDate + 1 : a \in Stored} :
            Stats(i).overdue = Cardinality({a \in Stored : IsOverdue(heap[a], i)}))
    /\ [][\A p \in Callers :
            (h[p].stage = "status" /\ h'[p].stage = "fields")
            => DerivedRight(heap[h[p].todo], now, h'[p].out.IsOverdue, h'[p].out.Status)]_vars

\* one response says overdue for a Todo that is due and not done, another
\* says completed for a Todo whose due date has passed as well
C23_Witness ==
    \E p, q \in Callers :
        /\ h[p].stage = "fields" /\ h[p].out.Status = "overdue" /\ h[p].out.IsOverdue
        /\ heap[h[p].todo].DueDate < now /\ ~heap[h[p].todo].Completed
        /\ h[q].stage = "fields" /\ h[q].out.Status = "completed" /\ ~h[q].out.IsOverdue
        /\ heap[h[q].todo].DueDate # 0 /\ heap[h[q].todo].DueDate < now

=============================================================================
